---- MODULE Spec2Model ----
(***************************************************************************)
(* Model of the MongoDB wrapper of src/MongoDb.py (class MongoDBConfig,    *)
(* class MongoDB, function identity) as driven by src/main.py.             *)
(*                                                                         *)
(* A document is a mapping from field names to values.  A field name is a  *)
(* sequence of dot-free segments: the name "a" is <<"a">>, the name "a.b"  *)
(* is <<"a", "b">>.  The backend reads the keys of a $set document as      *)
(* dotted paths, so a name is at the same time the path it denotes.  A     *)
(* value is a scalar, Leaf(v), or an embedded mapping, Sub(m).             *)
(***************************************************************************)
EXTENDS Integers, Sequences, FiniteSets, TLC

\* the wall clock (datetime.now) takes the values 0..MaxClock
MaxClock == 1

VARIABLES
    phase,      \* "start", "configured", "connected", "failed": position of main()
    config,     \* the MongoDBConfig under construction / handed to MongoDB()
    client,     \* "none", "open", "closed": the MongoClient of the MongoDB object
    coll,       \* the collection: sequence of stored documents, in natural order
    now,        \* the current wall-clock time
    op,         \* name of the last call made by main()
    result,     \* outcome of the last call: "none", "ok" or the exception raised
    args,       \* the args of that exception: the backend error it wraps, or
                \* the path its message names
    calls,      \* number of backend calls the last call made
    ret         \* value returned by the last read call

vars == <<phase, config, client, coll, now, op, result, args, calls, ret>>

----------------------------------------------------------------------------
(* Values and documents *)

Leaf(v) == [t |-> "s", v |-> v]
Sub(m) == [t |-> "m", m |-> m]
EmptyMap == [k \in {} |-> Leaf(0)]

ID == <<"_id">>
DATA == <<"data">>
CREATE_TIME == <<"createTime">>

Put(m, k, val) == [g \in DOMAIN m \cup {k} |-> IF g = k THEN val ELSE m[g]]
Singleton(k, val) == [g \in {k} |-> val]

\* all mappings from a subset of keys to scalar readings in vals
Maps(keys, vals) == UNION {[K -> {Leaf(v) : v \in vals}] : K \in SUBSET keys}

\* all documents with an optional scalar _id in ids and an optional data in maps
DocsOver(ids, maps) ==
    LET idParts == {EmptyMap} \cup {Singleton(ID, Leaf(i)) : i \in ids}
        dataParts == {EmptyMap} \cup {Singleton(DATA, Sub(m)) : m \in maps}
    IN {[k \in DOMAIN a \cup DOMAIN b |-> IF k \in DOMAIN a THEN a[k] ELSE b[k]] :
            a \in idParts, b \in dataParts}

----------------------------------------------------------------------------
(* The backend: the pymongo Collection calls the wrapper makes *)

IsPrefix(p, q) == Len(p) <= Len(q) /\ SubSeq(q, 1, Len(p)) = p

\* $set of one dotted path inside a mapping: creates the embedded mappings on
\* the way, fails when the way leads through a scalar
RECURSIVE SetIn(_, _, _)
SetIn(m, path, val) ==
    LET k == <<Head(path)>> IN
    IF Len(path) = 1 THEN [ok |-> TRUE, m |-> Put(m, k, val)]
    ELSE IF k \notin DOMAIN m
         THEN [ok |-> TRUE, m |-> Put(m, k, Sub(SetIn(EmptyMap, Tail(path), val).m))]
    ELSE IF m[k].t = "m"
         THEN LET r == SetIn(m[k].m, Tail(path), val)
              IN [ok |-> r.ok, m |-> IF r.ok THEN Put(m, k, Sub(r.m)) ELSE m]
    ELSE [ok |-> FALSE, m |-> m]

\* all the paths of a $set / $setOnInsert document applied to one document
RECURSIVE ApplySets(_, _)
ApplySets(doc, sets) ==
    IF DOMAIN sets = {} THEN [ok |-> TRUE, m |-> doc]
    ELSE LET p == CHOOSE q \in DOMAIN sets : TRUE
             r == SetIn(doc, p, sets[p])
             rest == [q \in DOMAIN sets \ {p} |-> sets[q]]
         IN IF r.ok THEN ApplySets(r.m, rest) ELSE [ok |-> FALSE, m |-> doc]

\* a document matches a filter when it has every field of the filter with the
\* filter's value
Matches(doc, filter) == \A k \in DOMAIN filter : k \in DOMAIN doc /\ doc[k] = filter[k]

MatchIndexes(c, filter) == {i \in 1..Len(c) : Matches(c[i], filter)}

Min(S) == CHOOSE i \in S : \A j \in S : i <= j

\* Collection.find(filter)
Find(c, filter) == SelectSeq(c, LAMBDA d : Matches(d, filter))

\* Collection.update_one(filter, {$set: sets, $setOnInsert: onInsert}, upsert)
UpdateOne(c, filter, sets, onInsert, upsert) ==
    LET hits == MatchIndexes(c, filter)
        conflict == \E p \in DOMAIN sets, q \in DOMAIN onInsert :
                        IsPrefix(p, q) \/ IsPrefix(q, p)
    IN IF conflict THEN [ok |-> FALSE, c |-> c]
       ELSE IF hits # {}
       THEN LET i == Min(hits)
                r == ApplySets(c[i], sets)
            IN IF r.ok /\ r.m[ID] = c[i][ID]
               THEN [ok |-> TRUE, c |-> [c EXCEPT ![i] = r.m]]
               ELSE [ok |-> FALSE, c |-> c]
       ELSE IF upsert
       THEN LET r1 == ApplySets(filter, sets)
                r2 == ApplySets(r1.m, onInsert)
            IN IF r1.ok /\ r2.ok /\ r2.m[ID] = filter[ID]
               THEN [ok |-> TRUE, c |-> Append(c, r2.m)]
               ELSE [ok |-> FALSE, c |-> c]
       ELSE [ok |-> TRUE, c |-> c]

----------------------------------------------------------------------------
(* MongoDb.py *)

\* identity(input_document): KeyError when the document has no "_id"
identity(input_document) ==
    IF ID \in DOMAIN input_document
    THEN [ok |-> TRUE, id |-> Singleton(ID, input_document[ID])]
    ELSE [ok |-> FALSE, id |-> EmptyMap]

NoConfig == [made |-> FALSE, ca_file |-> "None", replica_set |-> "None", read_preference |-> "None"]

\* Path.is_file() of the ca_file handed to MongoDBConfig
is_file(ca_file) == ca_file = "file"

\* variant: tests Path.exists() instead of Path.is_file()
post_init_raises_Exists(ca_file) ==
    ca_file # "None" /\ ca_file = "missing"

\* MongoDBConfig.__post_init__: TRUE when it raises DataReadError
post_init_raises(ca_file) ==
    ca_file # "None" /\ ~is_file(ca_file)

\* str(Path.resolve()): the absolute path, as its sequence of parts
resolve(ca_file) == <<"/", "cwd", ca_file>>

\* variant: an absent read preference is sent as the driver default "primary"
pymongo_option_dict_Defaults(cfg) ==
    LET keys == (IF cfg.ca_file # "None" THEN {"ssl", "ssl_ca_certs"} ELSE {})
                    \cup (IF cfg.replica_set # "None" THEN {"replicaset"} ELSE {})
                    \cup {"read_preference"}
    IN [k \in keys |->
            CASE k = "ssl" -> "True"
              [] k = "ssl_ca_certs" -> resolve(cfg.ca_file)
              [] k = "replicaset" -> cfg.replica_set
              [] OTHER -> IF cfg.read_preference # "None" THEN cfg.read_preference
                          ELSE "primary"]

\* MongoDBConfig.pymongo_option_dict
pymongo_option_dict(cfg) ==
    LET ssl == IF cfg.ca_file # "None"
               THEN [k \in {"ssl", "ssl_ca_certs"} |->
                        IF k = "ssl" THEN "True" ELSE resolve(cfg.ca_file)]
               ELSE [k \in {} |-> "None"]
        rs == IF cfg.replica_set # "None"
              THEN [k \in DOMAIN ssl \cup {"replicaset"} |->
                        IF k = "replicaset" THEN cfg.replica_set ELSE ssl[k]]
              ELSE ssl
    IN IF cfg.read_preference # "None"
       THEN [k \in DOMAIN rs \cup {"read_preference"} |->
                IF k = "read_preference" THEN cfg.read_preference ELSE rs[k]]
       ELSE rs

\* the write concern is never configured (uri and pymongo_option_dict carry no
\* "w"), so every write result is acknowledged
WriteAcknowledged == TRUE

\* the outcome of a call: what it raises ("ok" when it returns), the args the
\* exception carries, the collection it leaves and the number of backend
\* calls it made
Returns(c, n) == [res |-> "ok", args |-> "", c |-> c, calls |-> n]
Raises(exception, c, n) == [res |-> exception, args |-> "", c |-> c, calls |-> n]
\* except OperationFailure as e: raise DBError(e.args)
RaisesDBError(e, c, n) == [res |-> "DBError", args |-> e, c |-> c, calls |-> n]

\* one step of a batch: a KeyError raised while building the call, or an
\* update_one call
KeyErrorStep ==
    [kind |-> "keyerror", filter |-> EmptyMap, sets |-> EmptyMap, onInsert |-> EmptyMap]
UpdateStep(filter, sets, onInsert) ==
    [kind |-> "update", filter |-> filter, sets |-> sets, onInsert |-> onInsert]

RECURSIVE RunSteps(_, _, _, _)

\* variant: the loop goes on with the next update after one that raised
\* OperationFailure
RunSteps_Continue(c, steps, fail, n) ==
    IF Len(steps) = 0 THEN Returns(c, n - 1)
    ELSE LET s == Head(steps) IN
         IF s.kind = "keyerror" THEN Raises("KeyError", c, n - 1)
         ELSE IF fail = n THEN RunSteps(c, Tail(steps), fail, n + 1)
         ELSE LET r == UpdateOne(c, s.filter, s.sets, s.onInsert, TRUE)
              IN IF r.ok THEN RunSteps(r.c, Tail(steps), fail, n + 1)
                 ELSE RaisesDBError("OperationFailure", c, n)

\* variant: a call that raised OperationFailure is attempted a second time
RunSteps_Retry(c, steps, fail, n) ==
    IF Len(steps) = 0 THEN Returns(c, n - 1)
    ELSE LET s == Head(steps) IN
         IF s.kind = "keyerror" THEN Raises("KeyError", c, n - 1)
         ELSE LET r == UpdateOne(c, s.filter, s.sets, s.onInsert, TRUE)
                  m == IF fail = n THEN n + 1 ELSE n
              IN IF r.ok THEN RunSteps(r.c, Tail(steps), fail, m + 1)
                 ELSE RaisesDBError("OperationFailure", c, m)

\* runs the steps in order from backend call number n; the call number fail
\* raises OperationFailure, and so does a call the backend rejects; the loop
\* stops at the first exception
RunSteps(c, steps, fail, n) ==
    IF Len(steps) = 0 THEN Returns(c, n - 1)
    ELSE LET s == Head(steps) IN
         IF s.kind = "keyerror" THEN Raises("KeyError", c, n - 1)
         ELSE IF fail = n THEN RaisesDBError("OperationFailure", c, n)
         ELSE LET r == UpdateOne(c, s.filter, s.sets, s.onInsert, TRUE)
              IN IF r.ok THEN RunSteps(r.c, Tail(steps), fail, n + 1)
                 ELSE RaisesDBError("OperationFailure", c, n)

\* document["data"].items() in the order the caller's dict holds them
Items(data, order) == SelectSeq(order, LAMBDA k : k \in DOMAIN data)

\* f"data.{station_id}"
StationPath(station_id) == DATA \o station_id

\* the update_one calls of MongoDB.upsert_stations
RECURSIVE StationSteps(_, _, _)

\* variant: a document with an empty data is upserted as upsert_each does
StationSteps_EmptyData(documents, order, t) ==
    IF Len(documents) = 0 THEN <<>>
    ELSE LET document == Head(documents)
             mine == IF DATA \notin DOMAIN document THEN <<KeyErrorStep>>
                     ELSE LET items == Items(document[DATA].m, order)
                          IN IF Len(items) = 0
                             THEN <<IF ID \notin DOMAIN document THEN KeyErrorStep
                                    ELSE UpdateStep(Singleton(ID, document[ID]),
                                                    Singleton(DATA, document[DATA]),
                                                    Singleton(CREATE_TIME, Leaf(t)))>>
                             ELSE [i \in 1..Len(items) |->
                                    IF ID \notin DOMAIN document THEN KeyErrorStep
                                    ELSE UpdateStep(Singleton(ID, document[ID]),
                                            Singleton(StationPath(items[i]),
                                                      document[DATA].m[items[i]]),
                                            Singleton(CREATE_TIME, Leaf(t)))]
         IN mine \o StationSteps(Tail(documents), order, t)

\* variant: the creation timestamp is part of $set instead of $setOnInsert
StationSteps_SetCreateTime(documents, order, t) ==
    IF Len(documents) = 0 THEN <<>>
    ELSE LET document == Head(documents)
             mine == IF DATA \notin DOMAIN document THEN <<KeyErrorStep>>
                     ELSE LET items == Items(document[DATA].m, order)
                          IN [i \in 1..Len(items) |->
                                IF ID \notin DOMAIN document THEN KeyErrorStep
                                ELSE UpdateStep(Singleton(ID, document[ID]),
                                        Put(Singleton(StationPath(items[i]),
                                                      document[DATA].m[items[i]]),
                                            CREATE_TIME, Leaf(t)),
                                        EmptyMap)]
         IN mine \o StationSteps(Tail(documents), order, t)

StationSteps(documents, order, t) ==
    IF Len(documents) = 0 THEN <<>>
    ELSE LET document == Head(documents)
             mine == IF DATA \notin DOMAIN document THEN <<KeyErrorStep>>
                     ELSE LET items == Items(document[DATA].m, order)
                          IN [i \in 1..Len(items) |->
                                IF ID \notin DOMAIN document THEN KeyErrorStep
                                ELSE UpdateStep(Singleton(ID, document[ID]),
                                        Singleton(StationPath(items[i]),
                                                  document[DATA].m[items[i]]),
                                        Singleton(CREATE_TIME, Leaf(t)))]
         IN mine \o StationSteps(Tail(documents), order, t)

\* variant: the creation timestamp is part of $set instead of $setOnInsert
AllSteps_SetCreateTime(documents, t) ==
    [i \in 1..Len(documents) |->
        IF ID \notin DOMAIN documents[i] THEN KeyErrorStep
        ELSE UpdateStep(Singleton(ID, documents[i][ID]),
                        Put(documents[i], CREATE_TIME, Leaf(t)), EmptyMap)]

\* the update_one calls of MongoDB.upsert_all
AllSteps(documents, t) ==
    [i \in 1..Len(documents) |->
        IF ID \notin DOMAIN documents[i] THEN KeyErrorStep
        ELSE UpdateStep(Singleton(ID, documents[i][ID]), documents[i],
                        Singleton(CREATE_TIME, Leaf(t)))]

\* variant: one $set per key of data, as upsert_stations does
EachSteps_PerKey(documents, t) == StationSteps(documents, <<<<"a">>, <<"b">>>>, t)

\* variant: the creation timestamp is part of $set instead of $setOnInsert
EachSteps_SetCreateTime(documents, t) ==
    [i \in 1..Len(documents) |->
        IF ID \notin DOMAIN documents[i] \/ DATA \notin DOMAIN documents[i]
        THEN KeyErrorStep
        ELSE UpdateStep(Singleton(ID, documents[i][ID]),
                        Put(Singleton(DATA, documents[i][DATA]), CREATE_TIME, Leaf(t)),
                        EmptyMap)]

\* the update_one calls of MongoDB.upsert_each
EachSteps(documents, t) ==
    [i \in 1..Len(documents) |->
        IF ID \notin DOMAIN documents[i] \/ DATA \notin DOMAIN documents[i]
        THEN KeyErrorStep
        ELSE UpdateStep(Singleton(ID, documents[i][ID]),
                        Singleton(DATA, documents[i][DATA]),
                        Singleton(CREATE_TIME, Leaf(t)))]

\* MongoDB.upsert_stations / upsert_all / upsert_each as functions of the
\* collection, the batch, the clock and the failing backend call
upsert_stations(c, documents, order, t, fail) ==
    RunSteps(c, StationSteps(documents, order, t), fail, 1)
upsert_all(c, documents, t, fail) == RunSteps(c, AllSteps(documents, t), fail, 1)
upsert_each(c, documents, t, fail) == RunSteps(c, EachSteps(documents, t), fail, 1)

\* Collection.insert_many(documents), ordered: stops at the first duplicate _id
RECURSIVE InsertMany(_, _)
InsertMany(c, documents) ==
    IF Len(documents) = 0 THEN [ok |-> TRUE, c |-> c]
    ELSE IF MatchIndexes(c, Singleton(ID, Head(documents)[ID])) # {}
         THEN [ok |-> FALSE, c |-> c]
    ELSE InsertMany(Append(c, Head(documents)), Tail(documents))

\* MongoDB.insert_all, its insert_many being backend call number n
insert_all(c, documents, t, fail, n) ==
    LET documents_with_create_time ==
            [i \in 1..Len(documents) |-> Put(documents[i], CREATE_TIME, Leaf(t))]
    IN IF Len(documents) = 0 THEN Raises("TypeError", c, n - 1)
       ELSE IF fail = n THEN RaisesDBError("OperationFailure", c, n)
       ELSE LET r == InsertMany(c, documents_with_create_time)
            IN IF r.ok THEN Returns(r.c, n)
               ELSE RaisesDBError("OperationFailure", r.c, n)

\* variant: delete_one({}) instead of remove(): only the first document goes
remove_all_First(c, fail) ==
    IF fail = 1 THEN RaisesDBError("OperationFailure", c, 1)
    ELSE Returns(IF Len(c) = 0 THEN c ELSE Tail(c), 1)

\* MongoDB.remove_all
remove_all(c, fail) ==
    IF fail = 1 THEN RaisesDBError("OperationFailure", c, 1)
    ELSE Returns(<<>>, 1)

\* MongoDB.replace_all
replace_all(c, documents, t, fail) ==
    LET r == remove_all(c, fail)
    IN IF r.res # "ok" THEN r ELSE insert_all(r.c, documents, t, fail, 2)

\* MongoDB.select, its find being backend call number n
select(c, field, fail, n) ==
    IF fail = n THEN [res |-> "DBError", args |-> "OperationFailure", ret |-> <<>>]
    ELSE [res |-> "ok", args |-> "", ret |-> Find(c, field)]

\* MongoDB.all_documents: find() without a filter
all_documents(c, fail) == select(c, EmptyMap, fail, 1)

\* list(document): the keys of a stored document, "_id" first as the backend
\* stores it
RECURSIVE SeqOf(_)
SeqOf(S) == IF S = {} THEN <<>> ELSE LET x == CHOOSE y \in S : TRUE IN <<x>> \o SeqOf(S \ {x})
list(document) ==
    IF ID \in DOMAIN document THEN <<ID>> \o SeqOf(DOMAIN document \ {ID})
    ELSE SeqOf(DOMAIN document)

\* what first_document hands back: None, a key of a document, or a document
None == [kind |-> "None", v |-> <<>>]
Key(k) == [kind |-> "key", v |-> k]
Document(d) == [kind |-> "document", v |-> d]

\* MongoDB.first_document: find_one() gives None on an empty collection, and
\* list(None) raises TypeError; on a document, list() gives its keys and the
\* first of them is returned
first_document(c, fail) ==
    IF fail = 1 THEN [res |-> "DBError", args |-> "OperationFailure", ret |-> <<>>]
    ELSE IF Len(c) = 0 THEN [res |-> "TypeError", args |-> "", ret |-> <<>>]
    ELSE LET found == list(c[1])
         IN [res |-> "ok", args |-> "",
             ret |-> IF Len(found) > 0 THEN Key(Head(found)) ELSE None]

\* variant: an existing document is updated with $set instead of replaced
insert_Merge(c, document, fail) ==
    LET doc_id == identity(document) IN
    IF ~doc_id.ok THEN Raises("KeyError", c, 0)
    ELSE LET found == select(c, doc_id.id, fail, 1) IN
         IF found.res # "ok" THEN [res |-> found.res, args |-> found.args, c |-> c, calls |-> 1]
         ELSE IF fail = 2 THEN RaisesDBError("OperationFailure", c, 2)
         ELSE IF Len(found.ret) = 0 THEN Returns(Append(c, document), 2)
         ELSE Returns(UpdateOne(c, doc_id.id, document, EmptyMap, FALSE).c, 2)

\* MongoDB.insert
insert(c, document, fail) ==
    LET doc_id == identity(document) IN
    IF ~doc_id.ok THEN Raises("KeyError", c, 0)
    ELSE LET found == select(c, doc_id.id, fail, 1) IN
         IF found.res # "ok" THEN [res |-> found.res, args |-> found.args, c |-> c, calls |-> 1]
         ELSE IF fail = 2 THEN RaisesDBError("OperationFailure", c, 2)
         ELSE LET written ==
                     IF Len(found.ret) = 0 THEN Append(c, document)
                     ELSE [c EXCEPT ![Min(MatchIndexes(c, doc_id.id))] = document]
              IN IF ~WriteAcknowledged THEN Raises("InsertError", written, 2)
                 ELSE Returns(written, 2)

\* MongoDB.update: the filter handed to update_one is the value of "_id"
\* itself; pymongo raises TypeError unless it is a mapping
update(c, update_field, fail) ==
    IF ID \notin DOMAIN update_field THEN Raises("KeyError", c, 0)
    ELSE IF update_field[ID].t # "m" THEN Raises("TypeError", c, 0)
    ELSE IF fail = 1 THEN RaisesDBError("OperationFailure", c, 1)
    ELSE LET r == UpdateOne(c, update_field[ID].m, update_field, EmptyMap, FALSE)
         IN IF r.ok THEN Returns(r.c, 1) ELSE RaisesDBError("OperationFailure", c, 1)

\* MongoDB.delete
delete(c, field_key, fail) ==
    IF fail = 1 THEN RaisesDBError("OperationFailure", c, 1)
    ELSE LET hits == MatchIndexes(c, field_key)
         IN Returns(IF hits = {} THEN c
                    ELSE [j \in 1..(Len(c) - 1) |->
                            IF j < Min(hits) THEN c[j] ELSE c[j + 1]], 1)

----------------------------------------------------------------------------
(* main(): the calls and what they leave behind *)

Init ==
    /\ phase = "start"
    /\ config = NoConfig
    /\ client = "none"
    /\ coll = <<>>
    /\ now = 0
    /\ op = "none"
    /\ result = "none"
    /\ args = ""
    /\ calls = 0
    /\ ret = <<>>

\* time passes between two calls
Tick ==
    /\ now < MaxClock
    /\ now' = now + 1
    /\ UNCHANGED <<phase, config, client, coll, op, result, args, calls, ret>>

\* MongoDBConfig(...): __post_init__ raises DataReadError, which main() turns
\* into exit(1)
MakeConfig(ca_file, replica_set, read_preference) ==
    /\ phase = "start"
    /\ op' = "MongoDBConfig"
    /\ IF post_init_raises(ca_file)
       THEN /\ phase' = "failed"
            /\ result' = "DataReadError"
            /\ args' = ca_file
            /\ config' = config
       ELSE /\ phase' = "configured"
            /\ result' = "ok"
            /\ args' = ""
            /\ config' = [made |-> TRUE, ca_file |-> ca_file,
                          replica_set |-> replica_set,
                          read_preference |-> read_preference]
    /\ UNCHANGED <<client, coll, now, calls, ret>>

\* MongoDB.__init__: the client is the context manager of a with block, so it
\* is closed again when the block is left; main() keeps no reference to the
\* config
Connect(reachable) ==
    /\ phase = "configured"
    /\ op' = "MongoDB"
    /\ IF reachable
       THEN /\ phase' = "connected"
            /\ client' = "closed"
            /\ result' = "ok"
            /\ args' = ""
       ELSE /\ phase' = "failed"
            /\ client' = "none"
            /\ result' = "DBError"
            /\ args' = "ServerSelectionTimeoutError"
    /\ config' = NoConfig
    /\ UNCHANGED <<coll, now, calls, ret>>

\* what a write call with outcome r leaves behind; pymongo re-opens a closed
\* client on its next use
Write(name, r) ==
    /\ op' = name
    /\ coll' = r.c
    /\ result' = r.res
    /\ args' = r.args
    /\ calls' = r.calls
    /\ client' = IF r.calls > 0 THEN "open" ELSE client
    /\ ret' = <<>>
    /\ UNCHANGED <<phase, config, now>>

Insert(document, fail) ==
    /\ phase = "connected"
    /\ Write("insert", insert(coll, document, fail))

Insert_all(documents, fail) ==
    /\ phase = "connected"
    /\ Write("insert_all", insert_all(coll, documents, now, fail, 1))

Upsert_stations(documents, order, fail) ==
    /\ phase = "connected"
    /\ Write("upsert_stations", upsert_stations(coll, documents, order, now, fail))

Upsert_all(documents, fail) ==
    /\ phase = "connected"
    /\ Write("upsert_all", upsert_all(coll, documents, now, fail))

Upsert_each(documents, fail) ==
    /\ phase = "connected"
    /\ Write("upsert_each", upsert_each(coll, documents, now, fail))

Remove_all(fail) ==
    /\ phase = "connected"
    /\ Write("remove_all", remove_all(coll, fail))

Replace_all(documents, fail) ==
    /\ phase = "connected"
    /\ Write("replace_all", replace_all(coll, documents, now, fail))

Update(update_field, fail) ==
    /\ phase = "connected"
    /\ Write("update", update(coll, update_field, fail))

Delete(field_key, fail) ==
    /\ phase = "connected"
    /\ Write("delete", delete(coll, field_key, fail))

Select(field, fail) ==
    /\ phase = "connected"
    /\ op' = "select"
    /\ LET r == select(coll, field, fail, 1)
       IN /\ result' = r.res
          /\ args' = r.args
          /\ ret' = r.ret
    /\ calls' = 1
    /\ client' = "open"
    /\ UNCHANGED <<phase, config, coll, now>>

All_documents(fail) ==
    /\ phase = "connected"
    /\ op' = "all_documents"
    /\ LET r == all_documents(coll, fail)
       IN /\ result' = r.res
          /\ args' = r.args
          /\ ret' = r.ret
    /\ calls' = 1
    /\ client' = "open"
    /\ UNCHANGED <<phase, config, coll, now>>

First_document(fail) ==
    /\ phase = "connected"
    /\ op' = "first_document"
    /\ LET r == first_document(coll, fail)
       IN /\ result' = r.res
          /\ args' = r.args
          /\ ret' = r.ret
    /\ calls' = 1
    /\ client' = "open"
    /\ UNCHANGED <<phase, config, coll, now>>

----------------------------------------------------------------------------
(* The inputs *)

Ids == {1, 2}
StationIds == {<<"a">>, <<"b">>}
Readings == {1, 2}
CaFiles == {"None", "file", "directory", "missing"}
ReplicaSets == {"None", "rs0"}
ReadPreferences == {"None", "secondary"}

\* permutations of a set of station ids: the orders a dict can hold them in
OrdersOf(S) == {o \in [1..Cardinality(S) -> S] : \A i, j \in DOMAIN o : i # j => o[i] # o[j]}
Singles(D) == {<<d>> : d \in D}
Pairs(D) == {<<d, e>> : d, e \in D}
WithId(B) == {b \in B : \A i \in DOMAIN b : ID \in DOMAIN b[i]}
Filters == {EmptyMap} \cup {Singleton(ID, Leaf(i)) : i \in Ids}

\* Spec: every operation on batches of at most one document.  The documents
\* of identity 1 carry any of the stations, station "a" with either reading
\* and station "b" with one; the document of identity 2 and those without
\* identity carry few data: the former is there to be left alone, the latter
\* to be rejected
SmallMaps == Maps({<<"a">>}, {1})
StationMaps ==
    {m \in Maps(StationIds, Readings) : <<"b">> \in DOMAIN m => m[<<"b">>] = Leaf(2)}
Docs == {d \in DocsOver({1}, StationMaps) : ID \in DOMAIN d}
            \cup {d \in DocsOver({2}, {Singleton(<<"a">>, Leaf(1))}) :
                        ID \in DOMAIN d /\ DATA \in DOMAIN d}
            \cup DocsOver({}, SmallMaps)
Batches == {<<>>} \cup Singles(Docs)
\* update() is also handed documents whose _id is itself a mapping, {"_id": i}
UpdateFields ==
    DocsOver(Ids, SmallMaps)
        \cup {Put(d, ID, Sub(Singleton(ID, Leaf(i)))) : d \in DocsOver({}, SmallMaps), i \in Ids}

Next ==
    \/ Tick
    \/ \E ca \in CaFiles, rs \in ReplicaSets, rp \in ReadPreferences : MakeConfig(ca, rs, rp)
    \/ \E reachable \in BOOLEAN : Connect(reachable)
    \/ \E d \in Docs, fail \in 0..2 : Insert(d, fail)
    \/ \E ds \in WithId(Batches), fail \in 0..1 : Insert_all(ds, fail)
    \/ \E ds \in Batches, fail \in 0..2 : Upsert_stations(ds, <<<<"a">>, <<"b">>>>, fail)
    \/ \E ds \in Batches, fail \in 0..1 : Upsert_all(ds, fail)
    \/ \E ds \in Batches, fail \in 0..1 : Upsert_each(ds, fail)
    \/ \E fail \in 0..1 : Remove_all(fail)
    \/ \E ds \in WithId(Batches), fail \in 0..2 : Replace_all(ds, fail)
    \/ \E f \in UpdateFields, fail \in 0..1 : Update(f, fail)
    \/ \E f \in Filters, fail \in 0..1 : Delete(f, fail)
    \/ \E f \in Filters, fail \in 0..1 : Select(f, fail)
    \/ \E fail \in 0..1 : All_documents(fail)
    \/ \E fail \in 0..1 : First_document(fail)

Spec == Init /\ [][Next]_vars

\* the state right after a successful MongoDB(config)
InitConnected ==
    /\ phase = "connected"
    /\ config = NoConfig
    /\ client = "closed"
    /\ coll = <<>>
    /\ now = 0
    /\ op = "MongoDB"
    /\ result = "ok"
    /\ args = ""
    /\ calls = 0
    /\ ret = <<>>

\* SpecUpserts: the three upserts, in either order of the stations, on the
\* documents of Spec, next to insert (which stores a document without creation
\* timestamp) and remove_all
NextUpserts ==
    \/ Tick
    \/ \E d \in Docs, fail \in 0..2 : Insert(d, fail)
    \/ \E ds \in Batches, o \in OrdersOf(StationIds), fail \in 0..2 :
            Upsert_stations(ds, o, fail)
    \/ \E ds \in Batches, fail \in 0..1 : Upsert_all(ds, fail)
    \/ \E ds \in Batches, fail \in 0..1 : Upsert_each(ds, fail)
    \/ \E fail \in 0..1 : Remove_all(fail)

SpecUpserts == InitConnected /\ [][NextUpserts]_vars

\* SpecBatch: the batch operations on batches of up to two small documents
BatchDocs == DocsOver(Ids, SmallMaps)
PairBatches == {<<>>} \cup Singles(BatchDocs) \cup Pairs(BatchDocs)

NextBatch ==
    \/ Tick
    \/ \E ds \in WithId(PairBatches), fail \in 0..1 : Insert_all(ds, fail)
    \/ \E ds \in PairBatches, fail \in 0..2 : Upsert_stations(ds, <<<<"a">>>>, fail)
    \/ \E ds \in PairBatches, fail \in 0..2 : Upsert_all(ds, fail)
    \/ \E ds \in PairBatches, fail \in 0..2 : Upsert_each(ds, fail)
    \/ \E fail \in 0..1 : Remove_all(fail)
    \/ \E ds \in WithId(PairBatches), fail \in 0..2 : Replace_all(ds, fail)
    \/ \E f \in Filters, fail \in 0..1 : Select(f, fail)

SpecBatch == InitConnected /\ [][NextBatch]_vars

\* SpecStations: the data merges on one identity, with a station id that
\* contains a dot ("a.b")
DottedStationIds == StationIds \cup {<<"a", "b">>}
StationDocs == DocsOver({1}, Maps(DottedStationIds, Readings))

NextStations ==
    \/ Tick
    \/ \E d \in StationDocs, o \in OrdersOf(DottedStationIds), fail \in 0..3 :
            Upsert_stations(<<d>>, o, fail)
    \/ \E d \in StationDocs, fail \in 0..1 : Upsert_each(<<d>>, fail)
    \/ \E fail \in 0..1 : Remove_all(fail)

SpecStations == InitConnected /\ [][NextStations]_vars
----------------------------------------------------------------------------
(* Properties *)

Exists(c, id) == MatchIndexes(c, Singleton(ID, id)) # {}
Stored(c, id) == c[Min(MatchIndexes(c, Singleton(ID, id)))]
Range(q) == {q[i] : i \in DOMAIN q}

\* C1: upsert_all is idempotent: in every collection state and for every
\* document d, applying upsert_all([d]) again, at the same or any later time,
\* ends as the first application did and leaves every stored document as the
\* first application left it, creation timestamp included; a document with
\* "_id" is stored by the first application.
C1_UpsertAllIdempotent ==
    phase = "connected" =>
        \A d \in Docs :
            LET once == upsert_all(coll, <<d>>, now, 0)
            IN /\ ID \in DOMAIN d => once.res = "ok" /\ Exists(once.c, d[ID])
               /\ \A t \in now..MaxClock :
                      LET twice == upsert_all(once.c, <<d>>, t, 0)
                      IN twice.res = once.res /\ twice.c = once.c

\* upsert_all has returned on a document that was created at an earlier time
\* and that a further upsert_all of the same input meets again
C1_Witness ==
    /\ op = "upsert_all" /\ result = "ok"
    /\ \E d \in Docs, i \in DOMAIN coll :
          /\ ID \in DOMAIN d /\ DATA \in DOMAIN d
          /\ coll[i] = Put(d, CREATE_TIME, Leaf(0))
          /\ now > 0

\* C3: upsert_each replaces data wholesale: when a document of the incoming
\* identity is stored with data S, upsert_each of an incoming document with
\* data D returns and leaves the stored data equal to D, no key of S kept.
C3_UpsertEachReplacesData ==
    phase = "connected" =>
        \A d \in Docs :
            (/\ ID \in DOMAIN d /\ DATA \in DOMAIN d
             /\ Exists(coll, d[ID]) /\ DATA \in DOMAIN Stored(coll, d[ID]))
                => LET r == upsert_each(coll, <<d>>, now, 0)
                   IN r.res = "ok" /\ Stored(r.c, d[ID])[DATA] = d[DATA]

\* upsert_each has returned on two documents that both existed before it (they
\* carry no creation timestamp), one of them now holding a single-key data
C3_Witness ==
    /\ op = "upsert_each" /\ result = "ok"
    /\ Len(coll) = 2
    /\ \A i \in DOMAIN coll : CREATE_TIME \notin DOMAIN coll[i]
    /\ \E i \in DOMAIN coll :
          /\ coll[i][ID] = Leaf(1)
          /\ DATA \in DOMAIN coll[i]
          /\ coll[i][DATA] = Sub(Singleton(<<"b">>, Leaf(2)))

SameButData(old, new) ==
    \A k \in (DOMAIN old \cup DOMAIN new) \ {DATA} :
        k \in DOMAIN old /\ k \in DOMAIN new /\ old[k] = new[k]

FieldScoped(c, d, r) ==
    /\ Len(r.c) = Len(c)
    /\ \A i \in DOMAIN c :
          IF c[i][ID] = d[ID] THEN SameButData(c[i], r.c[i]) ELSE r.c[i] = c[i]

\* C4: upsert_each and upsert_stations are field-scoped: when the incoming
\* identity is already stored, the call (whatever its outcome) changes no
\* top-level field of that document other than data, adds and removes no
\* document, and leaves the documents of other identities as they are.
C4_FieldScoped ==
    phase = "connected" =>
        \A d \in Docs, fail \in 0..2 :
            (ID \in DOMAIN d /\ Exists(coll, d[ID]))
                => /\ FieldScoped(coll, d, upsert_each(coll, <<d>>, now, fail))
                   /\ \A o \in OrdersOf(StationIds) :
                         FieldScoped(coll, d, upsert_stations(coll, <<d>>, o, now, fail))

\* upsert_stations has returned on a document created earlier, next to a
\* document of the other identity
C4_Witness ==
    /\ op = "upsert_stations" /\ result = "ok" /\ calls = 2
    /\ Len(coll) = 2
    /\ now > 0
    /\ \E i \in DOMAIN coll :
          /\ coll[i][ID] = Leaf(1)
          /\ CREATE_TIME \in DOMAIN coll[i] /\ coll[i][CREATE_TIME] = Leaf(0)
          /\ DATA \in DOMAIN coll[i] /\ DOMAIN coll[i][DATA].m = StationIds

\* C5: insert creates or fully replaces: in every collection state, insert(d)
\* returns and select(identity(d)) then returns exactly one document, equal
\* to d, whether or not a document of that identity was stored before.
C5_InsertCreatesOrReplaces ==
    phase = "connected" =>
        \A d \in Docs :
            ID \in DOMAIN d
                => LET r == insert(coll, d, 0)
                   IN /\ r.res = "ok"
                      /\ select(r.c, identity(d).id, 0, 1).ret = <<d>>

\* insert has replaced the first of two documents in place: it is the only one
\* without creation timestamp, and a created document would stand last
C5_Witness ==
    /\ op = "insert" /\ result = "ok"
    /\ Len(coll) = 2
    /\ CREATE_TIME \notin DOMAIN coll[1]
    /\ CREATE_TIME \in DOMAIN coll[2]

Merge(S, D) == [k \in DOMAIN S \cup DOMAIN D |-> IF k \in DOMAIN D THEN D[k] ELSE S[k]]

\* C2: upsert_stations merges at sub-key granularity: when a document of the
\* incoming identity is stored with data S, upsert_stations of an incoming
\* document with data D returns and leaves a stored data that maps each key
\* of D to D's value, each key of S not in D to S's value, and has no other
\* key.
C2_UpsertStationsMerges ==
    [][\A d \in StationDocs, o \in OrdersOf(DottedStationIds) :
          (/\ ID \in DOMAIN d /\ DATA \in DOMAIN d
           /\ Exists(coll, d[ID]) /\ DATA \in DOMAIN Stored(coll, d[ID])
           /\ Upsert_stations(<<d>>, o, 0))
              => /\ result' = "ok"
                 /\ Stored(coll', d[ID])[DATA].m
                       = Merge(Stored(coll, d[ID])[DATA].m, d[DATA].m)]_vars

TwoIdentities(ds) ==
    /\ Len(ds) = 2
    /\ \A i \in DOMAIN ds : ID \in DOMAIN ds[i]
    /\ ds[1][ID] # ds[2][ID]

\* C6 as stated: replace_all([d1, d2]) followed by select({}) returns exactly
\* the set {d1, d2}.
C6_ReplaceAllReturnsBatch ==
    [][\A ds \in PairBatches :
          (TwoIdentities(ds) /\ Replace_all(ds, 0))
              => /\ result' = "ok"
                 /\ Range(select(coll', EmptyMap, 0, 1).ret) = {ds[1], ds[2]}]_vars

\* C6 amended: replace_all([d1, d2]) followed by select({}) returns exactly
\* two documents, d1 and d2 each with the creation timestamp of the call
\* added, and no document of the prior collection state.
C6_ReplaceAllDiscardsPrior ==
    phase = "connected" =>
        \A ds \in PairBatches :
            TwoIdentities(ds)
                => LET r == replace_all(coll, ds, now, 0)
                       found == select(r.c, EmptyMap, 0, 1).ret
                   IN /\ r.res = "ok"
                      /\ Len(found) = 2
                      /\ Range(found) = {Put(ds[1], CREATE_TIME, Leaf(now)),
                                         Put(ds[2], CREATE_TIME, Leaf(now))}

\* replace_all has returned at the later time and left two documents, both
\* stamped with that time, identity 2 first
C6_Witness ==
    /\ op = "replace_all" /\ result = "ok" /\ calls = 2
    /\ now > 0
    /\ Len(coll) = 2
    /\ coll[1][ID] = Leaf(2)
    /\ \A i \in DOMAIN coll : coll[i][CREATE_TIME] = Leaf(now)

\* C7: the client is open for the whole lifetime of the MongoDB object: from
\* the end of its construction on, every call finds the client open.
C7_ClientOpenForLifetime ==
    phase = "connected" => client = "open"

\* C8: a document without "_id" is rejected with UsageError by identity() and
\* by every write that derives its filter from the document.
C8_MissingIdentityIsUsageError ==
    [][\A d \in Docs :
          (/\ ID \notin DOMAIN d
           /\ \/ Insert(d, 0)
              \/ Upsert_all(<<d>>, 0)
              \/ Upsert_each(<<d>>, 0)
              \/ Upsert_stations(<<d>>, <<<<"a">>, <<"b">>>>, 0))
              => ~identity(d).ok /\ result' = "UsageError"]_vars

\* C9: MongoDBConfig(...) raises DataReadError and produces no config exactly
\* when a ca_file is given that is not an existing regular file; with no
\* ca_file or an existing file it produces the config.
C9_ConfigRejectsMissingCertificate ==
    [][phase = "start" =>
        \A ca \in CaFiles, rs \in ReplicaSets, rp \in ReadPreferences :
            MakeConfig(ca, rs, rp)
                => IF ca \in {"directory", "missing"}
                   THEN result' = "DataReadError" /\ ~config'.made /\ phase' = "failed"
                   ELSE result' = "ok" /\ config'.made /\ config'.ca_file = ca
                        /\ phase' = "configured"]_vars

\* the construction was refused for a ca_file that is a directory
C9_Witness ==
    /\ op = "MongoDBConfig" /\ result = "DataReadError" /\ args = "directory"
    /\ phase = "failed" /\ ~config.made

\* a backend call that raises OperationFailure is the last call of the
\* operation, made once, and reaches the caller as DBError with its args
Surfaced(r, fail) ==
    /\ r.calls <= fail
    /\ r.calls = fail => r.res = "DBError" /\ r.args = "OperationFailure"

\* C10: every storage primitive turns an OperationFailure of a backend call
\* into a DBError carrying the failure's args, after one attempt of that call
\* and without making a further call.
C10_BackendFailureSurfaces ==
    phase = "connected" =>
        \A fail \in 1..2 :
            /\ \A d \in Docs :
                  /\ Surfaced(insert(coll, d, fail), fail)
                  /\ Surfaced(upsert_all(coll, <<d>>, now, fail), fail)
                  /\ Surfaced(upsert_each(coll, <<d>>, now, fail), fail)
                  /\ \A o \in OrdersOf(StationIds) :
                        Surfaced(upsert_stations(coll, <<d>>, o, now, fail), fail)
                  /\ ID \in DOMAIN d => Surfaced(insert_all(coll, <<d>>, now, fail, 1), fail)
            /\ \A f \in UpdateFields : Surfaced(update(coll, f, fail), fail)
            /\ \A f \in Filters :
                  /\ Surfaced(delete(coll, f, fail), fail)
                  /\ LET r == select(coll, f, fail, 1)
                     IN fail = 1 => r.res = "DBError" /\ r.args = "OperationFailure"
            /\ Surfaced(remove_all(coll, fail), fail)

\* the second update_one of an upsert_stations raised OperationFailure after
\* the first had been applied, and the caller got a DBError
C10_Witness ==
    /\ op = "upsert_stations" /\ result = "DBError" /\ args = "OperationFailure"
    /\ calls = 2
    /\ Len(coll) = 1
    /\ DATA \in DOMAIN coll[1] /\ DOMAIN coll[1][DATA].m = {<<"a">>}

\* the batch [d, e] makes two updates under upsert_all and upsert_each
TwoUpdates(ds) == Len(ds) = 2 /\ \A i \in DOMAIN ds : ID \in DOMAIN ds[i] /\ DATA \in DOMAIN ds[i]

\* the outcome of a batch whose k-th update raised OperationFailure: the
\* caller gets DBError after k backend calls and the collection is what the
\* first k - 1 documents alone, applied without failure, leave
StoppedAt(r, k, before) ==
    /\ r.res = "DBError" /\ r.args = "OperationFailure"
    /\ r.calls = k
    /\ r.c = before.c

\* C11: batch upserts are sequential and non-atomic: when the k-th update of
\* upsert_all, upsert_each or upsert_stations on a batch [d, e] raises
\* OperationFailure, the collection holds exactly the effect of the first
\* k - 1 updates (nothing for k = 1, the upsert of [d] alone for k = 2), the
\* k-th call is the last backend call, and the caller gets DBError.
C11_BatchStopsAtFailure ==
    phase = "connected" =>
        \A ds \in PairBatches :
            TwoUpdates(ds) =>
                /\ StoppedAt(upsert_all(coll, ds, now, 1), 1, Returns(coll, 0))
                /\ StoppedAt(upsert_each(coll, ds, now, 1), 1, Returns(coll, 0))
                /\ StoppedAt(upsert_all(coll, ds, now, 2), 2,
                             upsert_all(coll, <<ds[1]>>, now, 0))
                /\ StoppedAt(upsert_each(coll, ds, now, 2), 2,
                             upsert_each(coll, <<ds[1]>>, now, 0))
                /\ (\A i \in DOMAIN ds : ds[i][DATA].m # EmptyMap) =>
                      /\ StoppedAt(upsert_stations(coll, ds, <<<<"a">>>>, now, 1), 1,
                                   Returns(coll, 0))
                      /\ StoppedAt(upsert_stations(coll, ds, <<<<"a">>>>, now, 2), 2,
                                   upsert_stations(coll, <<ds[1]>>, <<<<"a">>>>, now, 0))

\* the second update of an upsert_all raised OperationFailure at the later
\* time: the first document of the batch was created by the call, the second
\* was not
C11_Witness ==
    /\ op = "upsert_all" /\ result = "DBError" /\ calls = 2
    /\ now > 0
    /\ Len(coll) = 1
    /\ CREATE_TIME \in DOMAIN coll[1] /\ coll[1][CREATE_TIME] = Leaf(now)

\* C12: replace_all is two-phase and non-atomic: when its remove succeeds and
\* its insert_many then fails, the collection is left empty and the caller
\* gets DBError; when its remove fails, insert_many is not attempted and the
\* collection is as it was.
C12_ReplaceAllFailureLeavesEmpty ==
    [][\A ds \in WithId(PairBatches), fail \in 0..2 :
          Replace_all(ds, fail)
              => /\ (result' = "DBError" /\ calls' = 2) => coll' = <<>>
                 /\ fail = 1 => result' = "DBError" /\ calls' = 1 /\ coll' = coll]_vars

\* C13: upsert_all is whole-document: when a document of the incoming
\* identity is stored, upsert_all returns and leaves a stored document whose
\* top-level fields other than the creation timestamp are exactly those of the
\* incoming document, each with the incoming value.
C13_UpsertAllWholeDocument ==
    [][\A d \in Docs :
          (ID \in DOMAIN d /\ Exists(coll, d[ID]) /\ Upsert_all(<<d>>, 0))
              => /\ result' = "ok"
                 /\ DOMAIN Stored(coll', d[ID]) \ {CREATE_TIME} = DOMAIN d
                 /\ \A k \in DOMAIN d : Stored(coll', d[ID])[k] = d[k]]_vars

\* what an upsert with outcome r, made at time t for the identity id, does to
\* the creation timestamp: a stored document keeps the one it has (or keeps
\* having none), a document the call creates gets t
CreateTimeKept(c, id, r, t) ==
    IF Exists(c, id)
    THEN /\ Exists(r.c, id)
         /\ (CREATE_TIME \in DOMAIN Stored(r.c, id)) = (CREATE_TIME \in DOMAIN Stored(c, id))
         /\ CREATE_TIME \in DOMAIN Stored(c, id)
                => Stored(r.c, id)[CREATE_TIME] = Stored(c, id)[CREATE_TIME]
    ELSE Exists(r.c, id)
            => /\ CREATE_TIME \in DOMAIN Stored(r.c, id)
               /\ Stored(r.c, id)[CREATE_TIME] = Leaf(t)

\* C14: the creation timestamp is set once: in every collection state an
\* upsert_all, upsert_each or upsert_stations call, whatever its outcome,
\* leaves the creation timestamp of a stored identity as it is, and gives an
\* identity it creates the time of the call; so along any sequence of upserts
\* the timestamp stays the one written by the call that created the identity.
C14_CreateTimeSetOnce ==
    phase = "connected" =>
        \A d \in Docs, fail \in 0..2 :
            ID \in DOMAIN d
                => /\ CreateTimeKept(coll, d[ID], upsert_all(coll, <<d>>, now, fail), now)
                   /\ CreateTimeKept(coll, d[ID], upsert_each(coll, <<d>>, now, fail), now)
                   /\ \A o \in OrdersOf(StationIds) :
                         CreateTimeKept(coll, d[ID],
                                        upsert_stations(coll, <<d>>, o, now, fail), now)

\* upsert_stations has returned at a later time on the one document, which
\* still carries the creation time 0 and now holds both stations
C14_Witness ==
    /\ op = "upsert_stations" /\ result = "ok" /\ calls = 2
    /\ now > 0
    /\ Len(coll) = 1
    /\ CREATE_TIME \in DOMAIN coll[1] /\ coll[1][CREATE_TIME] = Leaf(0)
    /\ DATA \in DOMAIN coll[1] /\ DOMAIN coll[1][DATA].m = StationIds

\* C15: the option mapping of a config has an entry only for the optionals
\* that are given: "ssl" = True and "ssl_ca_certs" = the resolved ca_file
\* exactly when a ca_file is given, "replicaset" exactly when a replica set is
\* given, "read_preference" exactly when a read preference is given, each
\* with the given value, and no other key.
C15_OptionsOnlyForGivenOptionals ==
    phase = "configured" =>
        LET o == pymongo_option_dict(config)
            ca == config.ca_file # "None"
            rs == config.replica_set # "None"
            rp == config.read_preference # "None"
        IN /\ DOMAIN o \subseteq {"ssl", "ssl_ca_certs", "replicaset", "read_preference"}
           /\ ("ssl" \in DOMAIN o) = ca
           /\ ("ssl_ca_certs" \in DOMAIN o) = ca
           /\ ("replicaset" \in DOMAIN o) = rs
           /\ ("read_preference" \in DOMAIN o) = rp
           /\ ca => o["ssl"] = "True" /\ o["ssl_ca_certs"] = resolve(config.ca_file)
           /\ rs => o["replicaset"] = config.replica_set
           /\ rp => o["read_preference"] = config.read_preference

\* a config was made with a ca_file and a replica set and no read preference
C15_Witness ==
    /\ phase = "configured" /\ op = "MongoDBConfig" /\ result = "ok"
    /\ config.made
    /\ config.ca_file = "file" /\ config.replica_set = "rs0"
    /\ config.read_preference = "None"
    /\ DOMAIN pymongo_option_dict(config) = {"ssl", "ssl_ca_certs", "replicaset"}

\* C16: first_document returns the first document of the collection, whole,
\* as all_documents returns it first, when the collection is not empty, and
\* returns None without raising when it is empty.
C16_FirstDocumentReturnsFirst ==
    [][First_document(0)
          => /\ result' = "ok"
             /\ IF Len(coll) = 0 THEN ret'.kind = "None"
                ELSE /\ ret'.kind = "document"
                     /\ ret'.v = all_documents(coll, 0).ret[1]]_vars

\* C17: update(f) returns and sets the fields of f on the stored document
\* whose "_id" equals that of f, leaving its other fields and every other
\* document as they are, and creates no document when none has that "_id".
C17_UpdateSetsFields ==
    [][\A f \in UpdateFields :
          (ID \in DOMAIN f /\ f[ID].t = "s" /\ Update(f, 0))
              => /\ result' = "ok"
                 /\ Len(coll') = Len(coll)
                 /\ \A i \in DOMAIN coll :
                       IF coll[i][ID] = f[ID]
                       THEN coll'[i] = [k \in DOMAIN coll[i] \cup DOMAIN f |->
                                          IF k \in DOMAIN f THEN f[k] ELSE coll[i][k]]
                       ELSE coll'[i] = coll[i]]_vars

\* the call with outcome r has created the identity id at time t
Created(c, id, r, t) ==
    /\ r.res = "ok"
    /\ ~Exists(c, id) /\ Exists(r.c, id)
    /\ Len(r.c) = Len(c) + 1
    /\ Stored(r.c, id)[CREATE_TIME] = Leaf(t)

\* C18: upsert_stations of a document whose data is empty makes no backend
\* call: it returns, the collection is unchanged, and an identity that was
\* not stored is still not stored; upsert_all and upsert_each of the same
\* document create that identity, with its creation timestamp.
C18_EmptyDataIssuesNoUpdate ==
    phase = "connected" =>
        \A d \in Docs :
            (ID \in DOMAIN d /\ DATA \in DOMAIN d /\ DOMAIN d[DATA].m = {})
                => /\ \A o \in OrdersOf(StationIds), fail \in 0..1 :
                         LET r == upsert_stations(coll, <<d>>, o, now, fail)
                         IN r.res = "ok" /\ r.calls = 0 /\ r.c = coll
                   /\ ~Exists(coll, d[ID])
                         => /\ Created(coll, d[ID], upsert_all(coll, <<d>>, now, 0), now)
                            /\ Created(coll, d[ID], upsert_each(coll, <<d>>, now, 0), now)

\* upsert_stations has returned without a backend call and the collection
\* holds only the document of the other identity
C18_Witness ==
    /\ op = "upsert_stations" /\ result = "ok" /\ calls = 0
    /\ Len(coll) = 1
    /\ coll[1][ID] = Leaf(2)
====
